---------------------------- MODULE Spec2Model ----------------------------
(***************************************************************************)
(* Model of flyControler.c (RaspberryPilot): the flight-stabilisation      *)
(* tick motorControler(), its configuration store, the yaw transform and   *)
(* flyControlerInit(), together with the two threads that use them: the    *)
(* control-loop driver and a supervisor issuing configuration calls and    *)
(* the out-of-band halt.                                                   *)
(*                                                                         *)
(* Floats are modelled by integers (every value used is integral), except  *)
(* the motor gain and the gain-scaled motor output, which are kept in      *)
(* fixed point with denominator GainDen so that the final float ->         *)
(* unsigned short conversion really truncates.                             *)
(***************************************************************************)
EXTENDS Integers, FiniteSets, Sequences, TLC

\* ------------------------------------------------------------ constants
DEFAULT_ADJUST_PERIOD == 1
DEFAULT_GYRO_LIMIT == 50
DEFAULT_ANGULAR_LIMIT == 5000

\* resolution of the fixed-point motor gain (gain g is stored as g * GainDen)
GainDen == 2
\* number of configuration calls the supervisor issues in one run
MaxCalls == 2

\* unsigned short holds the values 0 .. UShortMod - 1
UShortMod == 2 ^ 16

Motors == {"CCW1", "CCW2", "CW1", "CW2"}

\* the nine PID controllers of pid.c
PidNames == {"rollAttitude", "pitchAttitude", "yawAttitude",
             "rollRate", "pitchRate", "yawRate",
             "altHoldAlt", "altHoldSpeed", "verticalAccel"}

\* ------------------------------------------------------------ helpers
min(a, b) == IF a < b THEN a ELSE b

max(a, b) == IF a > b THEN a ELSE b

\* commonLib.h: clamp a into [b, c]
LIMIT_MIN_MAX_VALUE(a, b, c) == min(max(a, b), c)

Abs(x) == IF x < 0 THEN -x ELSE x

\* C conversion of n / d to an integer type: the fraction is discarded
TruncToZero(n, d) == IF n >= 0 THEN n \div d ELSE -((-n) \div d)

\* (unsigned short) of the float n / GainDen.  When the integral part is not
\* representable the conversion is undefined: the builds in use either
\* saturate (ARM vcvt) or wrap (x86 cvttss2si and a 16-bit store).
CastUShort(n) ==
    LET t == TruncToZero(n, GainDen)
    IN  IF t >= 0 /\ t < UShortMod
        THEN {t}
        ELSE {IF t < 0 THEN 0 ELSE UShortMod - 1, t % UShortMod}

\* pid.h pidCalculation: proportional response to setpoint - measurement
pidCalculation(sp, measurement) == sp - measurement

\* ------------------------------------------------------------ inputs
\* arguments of setGyroLimit, setAngularLimit, setAltitudePidOutputLimitation
LimitArgs == {-10, 0, 20}

\* arguments of setAdjustPeriod
PeriodArgs == {3}

\* arguments of setYawCenterPoint
YawArgs == {-600, -540, -181, -180, 90, 180, 181, 600}

\* arguments of yawTransform
RawYaws == {-360, -180, -90, 0, 180, 360, 600}

\* arguments of setMotorGain, as numerators over GainDen: 1 + 1/GainDen, -1
GainArgs == {GainDen + 1, -GainDen}

\* altitude-hold gate readings: getEnableAltHold, getAltHoldIsReady, updateAltHold
Gates == {<<FALSE, TRUE, TRUE>>, <<TRUE, FALSE, TRUE>>,
          <<TRUE, TRUE, FALSE>>, <<TRUE, TRUE, TRUE>>}

\* measurement profiles the driver may have cached before a tick
Nominal ==
    [roll |-> -10, pitch |-> 20, yaw |-> -30,
     rollGyro |-> 7, pitchGyro |-> -25, yawGyro |-> 23,
     alt |-> 100, targetAlt |-> 110, altSpeed |-> -30, vAccel |-> 25,
     throttle |-> 2001, range |-> 500, maxPower |-> 3001, minPower |-> 1000,
     pidOutputLimitation |-> 30]

Saturating ==
    [roll |-> -120, pitch |-> 120, yaw |-> -50,
     rollGyro |-> -30, pitchGyro |-> -30, yawGyro |-> 50,
     alt |-> 100, targetAlt |-> 116, altSpeed |-> -1085, vAccel |-> 1100,
     throttle |-> 2001, range |-> 500, maxPower |-> 3001, minPower |-> 1000,
     pidOutputLimitation |-> 30]

LowThrottle ==
    [roll |-> 0, pitch |-> 0, yaw |-> 0,
     rollGyro |-> 40, pitchGyro |-> -20, yawGyro |-> -10,
     alt |-> 130, targetAlt |-> 100, altSpeed |-> 85, vAccel |-> 600,
     throttle |-> 1000, range |-> 500, maxPower |-> 3001, minPower |-> 1000,
     pidOutputLimitation |-> 30]

HighThrottle ==
    [roll |-> 5, pitch |-> -5, yaw |-> 0,
     rollGyro |-> -605, pitchGyro |-> 15, yawGyro |-> 0,
     alt |-> 100, targetAlt |-> 100, altSpeed |-> 0, vAccel |-> -50,
     throttle |-> 2900, range |-> 500, maxPower |-> 3001, minPower |-> 1000,
     pidOutputLimitation |-> 1000]

Profiles == {Nominal, Saturating, LowThrottle, HighThrottle}

NoFrame ==
    [gate |-> <<FALSE, FALSE, FALSE>>,
     m |-> [roll |-> 0, pitch |-> 0, yaw |-> 0,
            rollGyro |-> 0, pitchGyro |-> 0, yawGyro |-> 0,
            alt |-> 0, targetAlt |-> 0, altSpeed |-> 0, vAccel |-> 0,
            throttle |-> 0, range |-> 0, maxPower |-> 0, minPower |-> 0,
            pidOutputLimitation |-> 0]]

\* every gate reading on the nominal profile, the other profiles on some
Frames ==
    {[gate |-> g, m |-> Nominal] : g \in Gates}
    \cup {[gate |-> <<TRUE, TRUE, TRUE>>, m |-> p] : p \in Profiles}
    \cup {[gate |-> <<TRUE, TRUE, FALSE>>, m |-> Saturating],
          [gate |-> <<FALSE, TRUE, TRUE>>, m |-> HighThrottle]}

\* the frames of the runs that explore the supervisor's calls
FewFrames == {[gate |-> <<TRUE, TRUE, TRUE>>, m |-> Nominal]}

\* ------------------------------------------------------------ state
VARIABLES
    controlMotorMutex,            \* "uninit", "free", "tick", "halt"
    leaveFlyControler,
    rollAttitudeOutput, pitchAttitudeOutput, yawAttitudeOutput,
    altHoltAltOutput,
    adjustPeriod, angularLimit, gyroLimit, yawCenterPoint,
    maxThrottleOffset, altitudePidOutputLimitation,
    motorGain,                    \* motorControl.c, numerators over GainDen
    flySystemIsEnable,            \* systemControl.c
    pidSp,                        \* pid.c, setpoint of each controller
    motorPower,                   \* last value given to each power-level setter
    frame,                        \* measurements cached for the current tick
    pc,                           \* position of the control-loop thread
    rollRateOutput, pitchRateOutput, yawRateOutput,
    rollC, pitchC, yawC,          \* rollCcw1 .. yawCw2
    out,                          \* outCcw1 .. outCw2, numerators over GainDen
    maxLimit, minLimit,
    accelThrottleOffset, altholdThrottleOffset, throttleOffset, centerThrottle,
    hpc,                          \* position of the supervisor in the halt path
    nCalls,                       \* configuration calls issued so far
    initResult,                   \* return value of the last flyControlerInit
    yawOut                        \* return value of the last yawTransform

controlState ==
    <<leaveFlyControler, rollAttitudeOutput, pitchAttitudeOutput,
      yawAttitudeOutput, altHoltAltOutput, adjustPeriod, angularLimit,
      gyroLimit, yawCenterPoint, maxThrottleOffset,
      altitudePidOutputLimitation, motorGain>>

locals ==
    <<rollRateOutput, pitchRateOutput, yawRateOutput, rollC, pitchC, yawC,
      out, maxLimit, minLimit, accelThrottleOffset, altholdThrottleOffset,
      throttleOffset, centerThrottle>>

tickVars == <<frame, pc, locals>>

outside == <<flySystemIsEnable, pidSp, motorPower>>

supervisor == <<hpc, nCalls, initResult, yawOut>>

vars == <<controlMotorMutex, controlState, outside, tickVars, supervisor>>

ZeroMotors == [m \in Motors |-> 0]

\* lines 202-230: every local of motorControler starts at 0.f
LocalsZero ==
    /\ rollRateOutput' = 0 /\ pitchRateOutput' = 0 /\ yawRateOutput' = 0
    /\ rollC' = ZeroMotors /\ pitchC' = ZeroMotors /\ yawC' = ZeroMotors
    /\ out' = ZeroMotors
    /\ maxLimit' = 0 /\ minLimit' = 0
    /\ accelThrottleOffset' = 0 /\ altholdThrottleOffset' = 0
    /\ throttleOffset' = 0 /\ centerThrottle' = 0

\* static storage is zero-initialised; the mutex is not yet initialised
Init ==
    /\ controlMotorMutex = "uninit"
    /\ leaveFlyControler = FALSE
    /\ rollAttitudeOutput = 0 /\ pitchAttitudeOutput = 0
    /\ yawAttitudeOutput = 0 /\ altHoltAltOutput = 0
    /\ adjustPeriod = 0 /\ angularLimit = 0 /\ gyroLimit = 0
    /\ yawCenterPoint = 0 /\ maxThrottleOffset = 0
    /\ altitudePidOutputLimitation = 0
    /\ motorGain = ZeroMotors
    /\ flySystemIsEnable = FALSE
    /\ pidSp = [c \in PidNames |-> 0]
    /\ motorPower = ZeroMotors
    /\ frame = NoFrame
    /\ pc = "idle"
    /\ rollRateOutput = 0 /\ pitchRateOutput = 0 /\ yawRateOutput = 0
    /\ rollC = ZeroMotors /\ pitchC = ZeroMotors /\ yawC = ZeroMotors
    /\ out = ZeroMotors
    /\ maxLimit = 0 /\ minLimit = 0
    /\ accelThrottleOffset = 0 /\ altholdThrottleOffset = 0
    /\ throttleOffset = 0 /\ centerThrottle = 0
    /\ hpc = "idle"
    /\ nCalls = 0
    /\ initResult = "none"
    /\ yawOut = 0

\* ------------------------------------------------------------ flyControlerInit
\* mutant: the halt flag is cleared before the mutex is initialised, so a
\* failed initialisation has already written it
flyControlerInitEarlyWrites(ok) ==
    /\ controlMotorMutex \in {"uninit", "free"}
    /\ leaveFlyControler' = FALSE
    /\ IF ~ok
       THEN /\ initResult' = "false"
            /\ UNCHANGED <<controlMotorMutex, rollAttitudeOutput,
                           pitchAttitudeOutput, yawAttitudeOutput,
                           altHoltAltOutput, adjustPeriod, angularLimit,
                           gyroLimit, maxThrottleOffset,
                           altitudePidOutputLimitation, motorGain,
                           flySystemIsEnable>>
       ELSE /\ initResult' = "true"
            /\ controlMotorMutex' = "free"
            /\ flySystemIsEnable' = FALSE
            /\ adjustPeriod' = DEFAULT_ADJUST_PERIOD
            /\ gyroLimit' = DEFAULT_GYRO_LIMIT
            /\ angularLimit' = DEFAULT_ANGULAR_LIMIT
            /\ motorGain' = [m \in Motors |-> 1 * GainDen]
            /\ altitudePidOutputLimitation' = 15
            /\ rollAttitudeOutput' = 0
            /\ pitchAttitudeOutput' = 0
            /\ yawAttitudeOutput' = 0
            /\ altHoltAltOutput' = 0
            /\ maxThrottleOffset' = 1000
    /\ UNCHANGED <<yawCenterPoint, pidSp, motorPower, tickVars, hpc, nCalls,
                   yawOut>>

\* lines 75-99.  ok is the outcome of pthread_mutex_init; the mutex is only
\* (re)initialised while no thread holds it.
flyControlerInit(ok) ==
    /\ controlMotorMutex \in {"uninit", "free"}
    /\ IF ~ok
       THEN /\ initResult' = "false"
            /\ UNCHANGED <<controlMotorMutex, controlState, outside>>
       ELSE /\ initResult' = "true"
            /\ controlMotorMutex' = "free"
            /\ leaveFlyControler' = FALSE
            /\ flySystemIsEnable' = FALSE
            /\ adjustPeriod' = DEFAULT_ADJUST_PERIOD
            /\ gyroLimit' = DEFAULT_GYRO_LIMIT
            /\ angularLimit' = DEFAULT_ANGULAR_LIMIT
            /\ motorGain' = [m \in Motors |-> 1 * GainDen]
            /\ altitudePidOutputLimitation' = 15
            /\ rollAttitudeOutput' = 0
            /\ pitchAttitudeOutput' = 0
            /\ yawAttitudeOutput' = 0
            /\ altHoltAltOutput' = 0
            /\ maxThrottleOffset' = 1000
            /\ UNCHANGED <<yawCenterPoint, pidSp, motorPower>>
    /\ UNCHANGED <<tickVars, hpc, nCalls, yawOut>>

\* ------------------------------------------------------------ configuration
\* every configuration call is one call of the supervisor thread
Call ==
    /\ nCalls < MaxCalls
    /\ nCalls' = nCalls + 1
    /\ UNCHANGED <<controlMotorMutex, outside, tickVars, hpc, initResult>>

\* mutant: setting the flag also clears the cached attitude outputs
setLeaveFlyControlerFlagClearing(v) ==
    /\ Call
    /\ leaveFlyControler' = v
    /\ rollAttitudeOutput' = 0
    /\ pitchAttitudeOutput' = 0
    /\ yawAttitudeOutput' = 0
    /\ UNCHANGED <<altHoltAltOutput, adjustPeriod, angularLimit, gyroLimit,
                   yawCenterPoint, maxThrottleOffset,
                   altitudePidOutputLimitation, motorGain, yawOut>>

\* lines 111-113
setLeaveFlyControlerFlag(v) ==
    /\ Call
    /\ leaveFlyControler' = v
    /\ UNCHANGED <<rollAttitudeOutput, pitchAttitudeOutput, yawAttitudeOutput,
                   altHoltAltOutput, adjustPeriod, angularLimit, gyroLimit,
                   yawCenterPoint, maxThrottleOffset,
                   altitudePidOutputLimitation, motorGain, yawOut>>

\* mutant: the lower wrap branch is missing
WrapYawUpperOnly(x) == IF x > 180 THEN x - 360 ELSE x

\* lines 345-354: one wrap step of 360
WrapYaw(x) ==
    IF x > 180 THEN x - 360
    ELSE IF x < -180 THEN x + 360
    ELSE x

setYawCenterPoint(point) ==
    /\ Call
    /\ yawCenterPoint' = WrapYaw(point)
    /\ UNCHANGED <<leaveFlyControler, rollAttitudeOutput, pitchAttitudeOutput,
                   yawAttitudeOutput, altHoltAltOutput, adjustPeriod,
                   angularLimit, gyroLimit, maxThrottleOffset,
                   altitudePidOutputLimitation, motorGain, yawOut>>

\* mutant: the boundaries +180 and -180 are wrapped too
yawTransformWrapAt180(originPoint) ==
    LET output == originPoint - yawCenterPoint
    IN  IF output >= 180 THEN output - 360
        ELSE IF output <= -180 THEN output + 360
        ELSE output

\* lines 380-389
yawTransform(originPoint) ==
    LET output == originPoint - yawCenterPoint
    IN  IF output > 180 THEN output - 360
        ELSE IF output < -180 THEN output + 360
        ELSE output

\* a call of yawTransform from outside the tick (telemetry)
yawTransformCall(y) ==
    /\ Call
    /\ yawOut' = yawTransform(y)
    /\ UNCHANGED controlState

\* lines 401-404
setGyroLimit(limitation) ==
    /\ Call
    /\ gyroLimit' = limitation
    /\ UNCHANGED <<leaveFlyControler, rollAttitudeOutput, pitchAttitudeOutput,
                   yawAttitudeOutput, altHoltAltOutput, adjustPeriod,
                   angularLimit, yawCenterPoint, maxThrottleOffset,
                   altitudePidOutputLimitation, motorGain, yawOut>>

\* lines 431-434
setAdjustPeriod(period) ==
    /\ Call
    /\ adjustPeriod' = period
    /\ UNCHANGED <<leaveFlyControler, rollAttitudeOutput, pitchAttitudeOutput,
                   yawAttitudeOutput, altHoltAltOutput, angularLimit,
                   gyroLimit, yawCenterPoint, maxThrottleOffset,
                   altitudePidOutputLimitation, motorGain, yawOut>>

\* lines 461-464
setAngularLimit(angular) ==
    /\ Call
    /\ angularLimit' = angular
    /\ UNCHANGED <<leaveFlyControler, rollAttitudeOutput, pitchAttitudeOutput,
                   yawAttitudeOutput, altHoltAltOutput, adjustPeriod,
                   gyroLimit, yawCenterPoint, maxThrottleOffset,
                   altitudePidOutputLimitation, motorGain, yawOut>>

\* lines 489-492
setAltitudePidOutputLimitation(v) ==
    /\ Call
    /\ altitudePidOutputLimitation' = v
    /\ UNCHANGED <<leaveFlyControler, rollAttitudeOutput, pitchAttitudeOutput,
                   yawAttitudeOutput, altHoltAltOutput, adjustPeriod,
                   angularLimit, gyroLimit, yawCenterPoint, maxThrottleOffset,
                   motorGain, yawOut>>

\* motorControl.c setMotorGain, called at lines 87-90 and by the supervisor
setMotorGain(m, g) ==
    /\ Call
    /\ motorGain' = [motorGain EXCEPT ![m] = g]
    /\ UNCHANGED <<leaveFlyControler, rollAttitudeOutput, pitchAttitudeOutput,
                   yawAttitudeOutput, altHoltAltOutput, adjustPeriod,
                   angularLimit, gyroLimit, yawCenterPoint, maxThrottleOffset,
                   altitudePidOutputLimitation, yawOut>>

\* systemControl.c enableFlySystem: the pilot arms the vehicle
enableFlySystem ==
    /\ controlMotorMutex # "uninit"
    /\ ~flySystemIsEnable
    /\ flySystemIsEnable' = TRUE
    /\ UNCHANGED <<controlMotorMutex, controlState, pidSp, motorPower,
                   tickVars, supervisor>>

\* ------------------------------------------------------------ halt path
\* the out-of-band motor shutdown: lock, disable and stop the motors, unlock
\* mutant: the halt path does not wait for the mutex
haltLockNoWait ==
    /\ hpc = "idle"
    /\ controlMotorMutex # "uninit"
    /\ controlMotorMutex' = "halt"
    /\ hpc' = "stop"
    /\ UNCHANGED <<controlState, outside, tickVars, nCalls, initResult, yawOut>>

haltLock ==
    /\ hpc = "idle"
    /\ controlMotorMutex = "free"
    /\ controlMotorMutex' = "halt"
    /\ hpc' = "stop"
    /\ UNCHANGED <<controlState, outside, tickVars, nCalls, initResult, yawOut>>

haltStop ==
    /\ hpc = "stop"
    /\ flySystemIsEnable' = FALSE
    /\ motorPower' = ZeroMotors
    /\ hpc' = "unlock"
    /\ UNCHANGED <<controlMotorMutex, controlState, pidSp, tickVars, nCalls,
                   initResult, yawOut>>

haltUnlock ==
    /\ hpc = "unlock"
    /\ controlMotorMutex' = "free"
    /\ hpc' = "idle"
    /\ UNCHANGED <<controlState, outside, tickVars, nCalls, initResult, yawOut>>

\* ------------------------------------------------------------ the tick
\* The driver polls the halt flag between ticks, refreshes the measurements,
\* takes controlMotorMutex and calls motorControler (locals at 0, 202-230).
driverLock(f) ==
    /\ pc = "idle"
    /\ ~leaveFlyControler
    /\ flySystemIsEnable
    /\ controlMotorMutex = "free"
    /\ controlMotorMutex' = "tick"
    /\ frame' = f
    /\ pc' = "throttle"
    /\ LocalsZero
    /\ UNCHANGED <<controlState, outside, supervisor>>

\* lines 517-528: the new altHoltAltOutput
getAltHoldAltPidOutput ==
    LIMIT_MIN_MAX_VALUE(
        pidCalculation(pidSp["altHoldAlt"], frame.m.alt - frame.m.targetAlt),
        -altitudePidOutputLimitation, altitudePidOutputLimitation)

\* lines 539-546: the speed controller's result for setpoint sp
getAltHoldSpeedPidOutput(sp) == pidCalculation(sp, frame.m.altSpeed)

\* mutant: the cascade is evaluated whether or not an update is due
getThrottleOffsetByAltHoldAlways(updateAltHoldOffset) ==
    LIMIT_MIN_MAX_VALUE(getAltHoldSpeedPidOutput(getAltHoldAltPidOutput),
                        -maxThrottleOffset, maxThrottleOffset)

\* lines 557-573
getThrottleOffsetByAltHold(updateAltHoldOffset) ==
    IF updateAltHoldOffset
    THEN LIMIT_MIN_MAX_VALUE(getAltHoldSpeedPidOutput(getAltHoldAltPidOutput),
                             -maxThrottleOffset, maxThrottleOffset)
    ELSE 0

\* lines 584-596 (the setpoint is set to 0 first)
getThrottleOffsetByAcceleration ==
    LIMIT_MIN_MAX_VALUE(pidCalculation(0, frame.m.vAccel),
                        -maxThrottleOffset, maxThrottleOffset)

\* line 232: getEnableAltHold() && getAltHoldIsReady()
AltHoldGate == frame.gate[1] /\ frame.gate[2]

\* line 232: updateAltHold() is only called behind the gate
AltHoldOffset ==
    IF AltHoldGate THEN getThrottleOffsetByAltHold(frame.gate[3]) ELSE 0

\* lines 232-241
throttleStage ==
    /\ pc = "throttle"
    /\ LET evaluated == AltHoldGate /\ frame.gate[3]
           center == frame.m.throttle
                     + (AltHoldOffset + getThrottleOffsetByAcceleration)
       IN  /\ altholdThrottleOffset' = AltHoldOffset
           /\ accelThrottleOffset' = getThrottleOffsetByAcceleration
           /\ throttleOffset' = AltHoldOffset + getThrottleOffsetByAcceleration
           /\ centerThrottle' = center
           /\ maxLimit' = min(center + frame.m.range, frame.m.maxPower)
           /\ minLimit' = max(center - frame.m.range, frame.m.minPower)
           /\ altHoltAltOutput' =
                  IF evaluated THEN getAltHoldAltPidOutput ELSE altHoltAltOutput
           /\ pidSp' = [pidSp EXCEPT
                  !["altHoldSpeed"] =
                      IF evaluated THEN getAltHoldAltPidOutput ELSE @,
                  !["verticalAccel"] = 0]
    /\ pc' = "attitude"
    /\ UNCHANGED <<controlMotorMutex, leaveFlyControler, rollAttitudeOutput,
                   pitchAttitudeOutput, yawAttitudeOutput, adjustPeriod,
                   angularLimit, gyroLimit, yawCenterPoint, maxThrottleOffset,
                   altitudePidOutputLimitation, motorGain, flySystemIsEnable,
                   motorPower, frame, rollRateOutput, pitchRateOutput,
                   yawRateOutput, rollC, pitchC, yawC, out, supervisor>>

\* lines 141-151: the raw result of each attitude controller
AttitudeRaw(axis) ==
    CASE axis = "roll" -> pidCalculation(pidSp["rollAttitude"], frame.m.roll)
      [] axis = "pitch" -> pidCalculation(pidSp["pitchAttitude"], frame.m.pitch)
      [] axis = "yaw" -> pidCalculation(pidSp["yawAttitude"],
                                        yawTransform(frame.m.yaw))

\* mutant: the attitude result is stored without the clamp
AttitudeOutUnclamped(axis) == AttitudeRaw(axis)

\* lines 141-151: the clamp of each attitude output
AttitudeOut(axis) ==
    LIMIT_MIN_MAX_VALUE(AttitudeRaw(axis), -gyroLimit, gyroLimit)

\* lines 139-157, called at line 243
getAttitudePidOutput ==
    /\ pc = "attitude"
    /\ rollAttitudeOutput' = AttitudeOut("roll")
    /\ pitchAttitudeOutput' = AttitudeOut("pitch")
    /\ yawAttitudeOutput' = AttitudeOut("yaw")
    /\ pc' = "rate"
    /\ UNCHANGED <<controlMotorMutex, leaveFlyControler, altHoltAltOutput,
                   adjustPeriod, angularLimit, gyroLimit, yawCenterPoint,
                   maxThrottleOffset, altitudePidOutputLimitation, motorGain,
                   outside, frame, locals, supervisor>>

\* mutant: the rate controllers keep the setpoint of the tick before
RateSetpointStale(axis) ==
    CASE axis = "roll" -> pidSp["rollRate"]
      [] axis = "pitch" -> pidSp["pitchRate"]
      [] axis = "yaw" -> pidSp["yawRate"]

\* lines 174-176: the setpoint given to each rate controller
RateSetpoint(axis) ==
    CASE axis = "roll" -> rollAttitudeOutput
      [] axis = "pitch" -> pitchAttitudeOutput
      [] axis = "yaw" -> yawAttitudeOutput

\* lines 177-182: the result of each rate controller, returned as it is
RateOut(axis) ==
    CASE axis = "roll" -> pidCalculation(RateSetpoint("roll"), frame.m.rollGyro)
      [] axis = "pitch" -> pidCalculation(RateSetpoint("pitch"),
                                          frame.m.pitchGyro)
      [] axis = "yaw" -> pidCalculation(RateSetpoint("yaw"), frame.m.yawGyro)

\* lines 171-188, called at line 244
getRatePidOutput ==
    /\ pc = "rate"
    /\ pidSp' = [pidSp EXCEPT !["rollRate"] = RateSetpoint("roll"),
                              !["pitchRate"] = RateSetpoint("pitch"),
                              !["yawRate"] = RateSetpoint("yaw")]
    /\ rollRateOutput' = RateOut("roll")
    /\ pitchRateOutput' = RateOut("pitch")
    /\ yawRateOutput' = RateOut("yaw")
    /\ pc' = "mix"
    /\ UNCHANGED <<controlMotorMutex, controlState, flySystemIsEnable,
                   motorPower, frame, rollC, pitchC, yawC, out, maxLimit,
                   minLimit, accelThrottleOffset, altholdThrottleOffset,
                   throttleOffset, centerThrottle, supervisor>>

\* lines 259-262
RollSign(m) == IF m \in {"CCW1", "CW2"} THEN 1 ELSE -1

\* mutant: the pitch correction of the front and back motors is swapped
PitchSignSwapped(m) == IF m \in {"CCW1", "CW1"} THEN 1 ELSE -1

\* lines 277-280
PitchSign(m) == IF m \in {"CCW2", "CW2"} THEN 1 ELSE -1

\* lines 295-298
YawSign(m) == IF m \in {"CCW1", "CCW2"} THEN 1 ELSE -1

\* lines 300-311: centerThrottle plus the clamped sum of the three corrections
MixedOut(m, r, p, y) ==
    centerThrottle
    + LIMIT_MIN_MAX_VALUE(r + p + y, -frame.m.pidOutputLimitation,
                          frame.m.pidOutputLimitation)

\* mutant: the output is not clamped to the throttle window
GainedOutNoWindow(m, o) == motorGain[m] * o

\* lines 313-320: the gain times the output clamped to the throttle window
GainedOut(m, o) == motorGain[m] * LIMIT_MIN_MAX_VALUE(o, minLimit, maxLimit)

\* lines 259-320
mix ==
    /\ pc = "mix"
    /\ rollC' = [m \in Motors |-> RollSign(m) * rollRateOutput]
    /\ pitchC' = [m \in Motors |-> PitchSign(m) * pitchRateOutput]
    /\ yawC' = [m \in Motors |-> YawSign(m) * yawRateOutput]
    /\ out' = [m \in Motors |->
                 GainedOut(m, MixedOut(m, RollSign(m) * rollRateOutput,
                                       PitchSign(m) * pitchRateOutput,
                                       YawSign(m) * yawRateOutput))]
    /\ pc' = "ccw1"
    /\ UNCHANGED <<controlMotorMutex, controlState, outside, frame,
                   rollRateOutput, pitchRateOutput, yawRateOutput, maxLimit,
                   minLimit, accelThrottleOffset, altholdThrottleOffset,
                   throttleOffset, centerThrottle, supervisor>>

\* lines 322-325: one power-level setter call
setupMotorPoewrLevel(m, at, next) ==
    /\ pc = at
    /\ \E v \in CastUShort(out[m]) :
           motorPower' = [motorPower EXCEPT ![m] = v]
    /\ pc' = next
    /\ UNCHANGED <<controlMotorMutex, controlState, flySystemIsEnable, pidSp,
                   frame, locals, supervisor>>

\* line 322
setupCcw1MotorPoewrLevel == setupMotorPoewrLevel("CCW1", "ccw1", "ccw2")

\* line 323
setupCcw2MotorPoewrLevel == setupMotorPoewrLevel("CCW2", "ccw2", "cw1")

\* line 324
setupCw1MotorPoewrLevel == setupMotorPoewrLevel("CW1", "cw1", "cw2")

\* line 325
setupCw2MotorPoewrLevel == setupMotorPoewrLevel("CW2", "cw2", "return")

\* line 333: motorControler returns (its locals are gone) and the driver
\* releases controlMotorMutex
driverUnlock ==
    /\ pc = "return"
    /\ controlMotorMutex' = "free"
    /\ pc' = "idle"
    /\ LocalsZero
    /\ UNCHANGED <<controlState, outside, frame, supervisor>>

\* ------------------------------------------------------------ specification
TickSteps ==
    \/ throttleStage
    \/ getAttitudePidOutput
    \/ getRatePidOutput
    \/ mix
    \/ setupCcw1MotorPoewrLevel
    \/ setupCcw2MotorPoewrLevel
    \/ setupCw1MotorPoewrLevel
    \/ setupCw2MotorPoewrLevel
    \/ driverUnlock

Configure ==
    \/ \E v \in BOOLEAN : setLeaveFlyControlerFlag(v)
    \/ \E p \in YawArgs : setYawCenterPoint(p)
    \/ \E y \in RawYaws : yawTransformCall(y)
    \/ \E v \in LimitArgs : setGyroLimit(v)
    \/ \E v \in PeriodArgs : setAdjustPeriod(v)
    \/ \E v \in LimitArgs : setAngularLimit(v)
    \/ \E v \in LimitArgs : setAltitudePidOutputLimitation(v)
    \/ \E m \in Motors, g \in GainArgs : setMotorGain(m, g)

Halt ==
    \/ haltLock
    \/ haltStop
    \/ haltUnlock

Next ==
    \/ \E ok \in BOOLEAN : flyControlerInit(ok)
    \/ enableFlySystem
    \/ Configure
    \/ Halt
    \/ \E f \in FewFrames : driverLock(f)
    \/ TickSteps

\* every call and both threads, ticks on the frames of FewFrames
Spec == Init /\ [][Next]_vars

Tune ==
    \/ \E v \in LimitArgs : setGyroLimit(v)
    \/ \E v \in LimitArgs : setAltitudePidOutputLimitation(v)
    \/ \E m \in Motors : setMotorGain(m, GainDen + 1)
    \/ setMotorGain("CW2", -GainDen)

NextTick ==
    \/ flyControlerInit(TRUE)
    \/ enableFlySystem
    \/ Tune
    \/ \E f \in Frames : driverLock(f)
    \/ TickSteps

\* ticks on every frame, with the calls that tune what a tick reads
SpecTick == Init /\ [][NextTick]_vars

\* ------------------------------------------------------------ properties
InTick == pc # "idle"

\* the steps of one tick, in the order of the statements of motorControler
TickOrder ==
    {<<"idle", "throttle">>, <<"throttle", "attitude">>,
     <<"attitude", "rate">>, <<"rate", "mix">>, <<"mix", "ccw1">>,
     <<"ccw1", "ccw2">>, <<"ccw2", "cw1">>, <<"cw1", "cw2">>,
     <<"cw2", "return">>, <<"return", "idle">>}

Step(from, to) == pc = from /\ pc' = to

\* a mathematical clamp of x into [lo, hi], for lo <= hi
Clamp(x, lo, hi) == IF x < lo THEN lo ELSE IF x > hi THEN hi ELSE x

GateOpen == frame.gate[1] /\ frame.gate[2] /\ frame.gate[3]

C2_GatedOffsetZero ==
    (pc \in {"attitude", "rate", "mix", "ccw1", "ccw2", "cw1", "cw2", "return"}
     /\ ~GateOpen)
        => /\ altholdThrottleOffset = 0
           /\ throttleOffset = accelThrottleOffset
           /\ centerThrottle = frame.m.throttle + accelThrottleOffset

C2_Witness ==
    /\ pc = "attitude"
    /\ frame.gate = <<TRUE, TRUE, FALSE>>
    /\ altHoltAltOutput # 0
    /\ pidSp["altHoldSpeed"] # 0
    /\ altholdThrottleOffset = 0

\* C3: once the mixer has run, the three signed corrections of each motor
\* add up to  CCW1 = +R - P + Y, CCW2 = -R + P + Y, CW1 = -R - P - Y,
\* CW2 = +R + P - Y  for the rate outputs R, P, Y of the tick.
C3_SignTable ==
    pc \in {"ccw1", "ccw2", "cw1", "cw2", "return"}
        => LET R == rollRateOutput
               P == pitchRateOutput
               Y == yawRateOutput
               sum(m) == rollC[m] + pitchC[m] + yawC[m]
           IN  /\ sum("CCW1") = R - P + Y
               /\ sum("CCW2") = -R + P + Y
               /\ sum("CW1") = -R - P - Y
               /\ sum("CW2") = R + P - Y

C3_Witness ==
    /\ pc = "ccw1"
    /\ rollRateOutput = 3 /\ pitchRateOutput = 5 /\ yawRateOutput = 7
    /\ rollC["CCW1"] + pitchC["CCW1"] + yawC["CCW1"] = 5
    /\ rollC["CW1"] + pitchC["CW1"] + yawC["CW1"] = -15

\* the value of the float n / GainDen has an integral part an unsigned
\* short can hold
Representable(n) ==
    TruncToZero(n, GainDen) >= 0 /\ TruncToZero(n, GainDen) < UShortMod

\* the motor written by the step that leaves position at
WrittenAt(at) ==
    CASE at = "ccw1" -> "CCW1"
      [] at = "ccw2" -> "CCW2"
      [] at = "cw1" -> "CW1"
      [] at = "cw2" -> "CW2"

WriteSteps == {<<"ccw1", "ccw2">>, <<"ccw2", "cw1">>, <<"cw1", "cw2">>,
               <<"cw2", "return">>}

\* the mixer's command of motor m, before the gain: center throttle plus the
\* sum of the three corrections clamped to the correction limit, clamped to
\* the throttle window
Command(m) ==
    Clamp(centerThrottle
          + Clamp(rollC'[m] + pitchC'[m] + yawC'[m],
                  -frame.m.pidOutputLimitation, frame.m.pidOutputLimitation),
          minLimit, maxLimit)

\* C4 as claimed: every motor write passes the truncation of the gain times
\* the clamped command, and with gain 1 the command lies in
\* [minLimit, maxLimit] for every throttle level, offset, range and bounds.
C4_Original ==
    [][/\ Step("mix", "ccw1") =>
            \A m \in Motors :
                motorGain[m] = GainDen =>
                    /\ minLimit * GainDen <= out'[m]
                    /\ out'[m] <= maxLimit * GainDen
       /\ \A w \in WriteSteps :
            Step(w[1], w[2]) =>
                motorPower'[WrittenAt(w[1])]
                    = TruncToZero(out[WrittenAt(w[1])], GainDen)]_vars

\* C4 amended: whenever minLimit <= maxLimit the mixer leaves in out[m] the
\* gain times the clamped command, which with gain 1 lies in
\* [minLimit, maxLimit]; and every motor write passes the truncation of out[m]
\* whenever its integral part fits an unsigned short.
C4_ClampedCommand ==
    [][/\ (Step("mix", "ccw1") /\ minLimit <= maxLimit) =>
            \A m \in Motors :
                /\ out'[m] = motorGain[m] * Command(m)
                /\ motorGain[m] = GainDen =>
                       /\ minLimit * GainDen <= out'[m]
                       /\ out'[m] <= maxLimit * GainDen
       /\ \A w \in WriteSteps :
            (Step(w[1], w[2]) /\ Representable(out[WrittenAt(w[1])])) =>
                motorPower'[WrittenAt(w[1])]
                    = TruncToZero(out[WrittenAt(w[1])], GainDen)]_vars

\* a write that truncated a fraction, of a command that the window clamped
C4_Witness ==
    /\ pc = "ccw2"
    /\ motorGain["CCW1"] = GainDen + 1
    /\ out["CCW1"] % GainDen # 0
    /\ motorPower["CCW1"] * GainDen < out["CCW1"]
    /\ out["CCW1"] = motorGain["CCW1"] * maxLimit
    /\ minLimit < maxLimit

\* o is the clamp of raw to [-limit, limit]: never beyond the limit, and raw
\* itself when raw is strictly inside
Bounded(o, raw, limit) ==
    /\ Abs(o) <= limit
    /\ Abs(raw) < limit => o = raw

\* the clamped stage outputs written by the step being taken, each with its
\* raw value and the limit it was clamped to
ClampSites ==
    (IF Step("attitude", "rate")
     THEN {<<rollAttitudeOutput', AttitudeRaw("roll"), gyroLimit>>,
           <<pitchAttitudeOutput', AttitudeRaw("pitch"), gyroLimit>>,
           <<yawAttitudeOutput', AttitudeRaw("yaw"), gyroLimit>>}
     ELSE {})
    \cup
    (IF Step("throttle", "attitude")
     THEN {<<accelThrottleOffset', pidCalculation(0, frame.m.vAccel),
             maxThrottleOffset>>}
     ELSE {})
    \cup
    (IF Step("throttle", "attitude") /\ GateOpen
     THEN {<<altHoltAltOutput',
             pidCalculation(pidSp["altHoldAlt"],
                            frame.m.alt - frame.m.targetAlt),
             altitudePidOutputLimitation>>,
           <<altholdThrottleOffset',
             pidCalculation(altHoltAltOutput', frame.m.altSpeed),
             maxThrottleOffset>>}
     ELSE {})
    \cup
    (IF Step("mix", "ccw1")
     THEN {<<out'[m] \div GainDen - centerThrottle,
             rollC'[m] + pitchC'[m] + yawC'[m],
             frame.m.pidOutputLimitation>> :
               m \in {n \in Motors :
                        /\ motorGain[n] = GainDen
                        /\ minLimit * GainDen < out'[n]
                        /\ out'[n] < maxLimit * GainDen}}
     ELSE {})

\* C5 as claimed: for every value of the limits, every clamped stage output
\* is within its limit in magnitude and equals the raw result when that is
\* strictly inside (the motor correction being one clamp of the sum).
C5_Original ==
    [][\A c \in ClampSites : Bounded(c[1], c[2], c[3])]_vars

\* C5 amended: the same for every non-negative value of the limit the stage
\* read.
C5_ClampNonNegative ==
    [][\A c \in ClampSites : c[3] >= 0 => Bounded(c[1], c[2], c[3])]_vars

\* the attitude stage has clamped two raw results of magnitude 120 to the
\* gyro limit, and left a third on the limit as it was
C5_Witness ==
    /\ pc = "rate"
    /\ gyroLimit = DEFAULT_GYRO_LIMIT
    /\ frame.m.roll = -120
    /\ rollAttitudeOutput = 50
    /\ pitchAttitudeOutput = -50
    /\ yawAttitudeOutput = 50

LimitsNonNegative ==
    /\ gyroLimit >= 0
    /\ angularLimit >= 0
    /\ altitudePidOutputLimitation >= 0
    /\ maxThrottleOffset >= 0

YawNormalized == yawCenterPoint >= -180 /\ yawCenterPoint <= 180

\* C6 as claimed: after flyControlerInit, whatever the setters are called
\* with, every limit is non-negative and yawCenterPoint is in [-180, 180].
C6_Original ==
    controlMotorMutex # "uninit" => LimitsNonNegative /\ YawNormalized

\* C6 amended: each limit stays non-negative and yawCenterPoint stays in
\* [-180, 180] across every step (flyControlerInit, setters, ticks) other
\* than a setter call with a negative limit, respectively a
\* setYawCenterPoint with a point outside [-540, 540].
C6_PreservedByTrustedCalls ==
    [][/\ (gyroLimit >= 0
           /\ ~(\E v \in LimitArgs : v < 0 /\ setGyroLimit(v)))
              => gyroLimit' >= 0
       /\ (angularLimit >= 0
           /\ ~(\E v \in LimitArgs : v < 0 /\ setAngularLimit(v)))
              => angularLimit' >= 0
       /\ (altitudePidOutputLimitation >= 0
           /\ ~(\E v \in LimitArgs :
                    v < 0 /\ setAltitudePidOutputLimitation(v)))
              => altitudePidOutputLimitation' >= 0
       /\ maxThrottleOffset >= 0 => maxThrottleOffset' >= 0
       /\ (YawNormalized
           /\ ~(\E p \in YawArgs :
                    (p > 540 \/ p < -540) /\ setYawCenterPoint(p)))
              => YawNormalized']_vars

\* a wrapped yaw center point and a tuned limit, after flyControlerInit
C6_Witness ==
    /\ controlMotorMutex # "uninit"
    /\ yawCenterPoint = 179
    /\ gyroLimit = 20

\* C7 as claimed: for every raw yaw and stored center point yawTransform
\* returns a value in [-180, 180], which is raw - center when that is in
\* [-180, 180], and the call changes no state.
C7_Original ==
    [][/\ \A y \in RawYaws :
            yawTransformCall(y) =>
                /\ yawOut' >= -180 /\ yawOut' <= 180
                /\ (y - yawCenterPoint >= -180 /\ y - yawCenterPoint <= 180)
                       => yawOut' = y - yawCenterPoint
       /\ yawOut' # yawOut => UNCHANGED <<controlState, outside, tickVars>>
      ]_vars

\* C7 amended: the result is in [-180, 180] whenever raw - center is in
\* [-540, 540] (one wrap step); the rest as claimed.
C7_OneWrapStep ==
    [][/\ \A y \in RawYaws :
            yawTransformCall(y) =>
                /\ (y - yawCenterPoint >= -540 /\ y - yawCenterPoint <= 540)
                       => (yawOut' >= -180 /\ yawOut' <= 180)
                /\ (y - yawCenterPoint >= -180 /\ y - yawCenterPoint <= 180)
                       => yawOut' = y - yawCenterPoint
       /\ yawOut' # yawOut => UNCHANGED <<controlState, outside, tickVars>>
      ]_vars

\* a difference of exactly -180 returned unwrapped
C7_Witness ==
    /\ yawOut = -180
    /\ yawCenterPoint = 90
    /\ nCalls = 2

\* what a step that sets the halt flag leaves alone
HaltFlagFrame ==
    UNCHANGED <<rollAttitudeOutput, pitchAttitudeOutput, yawAttitudeOutput,
                altHoltAltOutput, adjustPeriod, angularLimit, gyroLimit,
                yawCenterPoint, maxThrottleOffset,
                altitudePidOutputLimitation, motorGain, controlMotorMutex,
                outside, tickVars>>

\* a tick in progress moves on, one statement after the other
TickGoesOn ==
    /\ pc' # pc => <<pc, pc'>> \in TickOrder
    /\ InTick => ENABLED TickSteps

\* C8 as claimed: the step that sets the halt flag changes nothing else, the
\* tick in progress goes on through its four writes, and the flag is true
\* for ever after.
C8_Original ==
    [][/\ (~leaveFlyControler /\ leaveFlyControler') => HaltFlagFrame
       /\ TickGoesOn
       /\ leaveFlyControler => leaveFlyControler']_vars

\* C8 amended: the flag stays true until it is written again, by
\* setLeaveFlyControlerFlag(false) or by flyControlerInit; the rest as
\* claimed.
C8_HaltIsCooperative ==
    [][/\ (~leaveFlyControler /\ leaveFlyControler') => HaltFlagFrame
       /\ TickGoesOn
       /\ (leaveFlyControler
           /\ ~setLeaveFlyControlerFlag(FALSE)
           /\ ~flyControlerInit(TRUE))
              => leaveFlyControler']_vars

\* the flag was set while a tick was in progress (the driver starts none
\* once it is set) and that tick has made its four writes
C8_Witness ==
    /\ leaveFlyControler
    /\ pc = "return"
    /\ \A m \in Motors : motorPower[m] > 0

\* C9: flyControlerInit returns false exactly when the mutex initialisation
\* fails, and then writes no field; when it returns true the halt flag is
\* false, the adjust period 1, the gyro limit 50, the angular limit 5000, the
\* altitude-PID limit 15, every motor gain 1 and the cached outputs 0.
C9_InitContract ==
    [][\A ok \in BOOLEAN :
         flyControlerInit(ok) =>
            /\ initResult' = "false" <=> ~ok
            /\ initResult' = "true" <=> ok
            /\ ~ok => UNCHANGED <<controlState, controlMotorMutex>>
            /\ ok => /\ leaveFlyControler' = FALSE
                     /\ adjustPeriod' = 1
                     /\ gyroLimit' = 50
                     /\ angularLimit' = 5000
                     /\ altitudePidOutputLimitation' = 15
                     /\ \A m \in Motors : motorGain'[m] = GainDen
                     /\ rollAttitudeOutput' = 0
                     /\ pitchAttitudeOutput' = 0
                     /\ yawAttitudeOutput' = 0
                     /\ altHoltAltOutput' = 0]_vars

\* a failed initialisation that left a tuned limit and the halt flag alone
C9_Witness ==
    /\ initResult = "false"
    /\ gyroLimit = 20
    /\ leaveFlyControler

\* C10: in a tick the three attitude outputs are written by the attitude
\* stage only, which comes once and before the rate stage; each rate
\* controller gets the attitude output of its axis as setpoint and is
\* evaluated with it; the mixer takes the rate results unclamped; and the
\* motors are written only after the last PID evaluation, in the four write
\* steps.
C10_StageOrder ==
    [][/\ pc' # pc => <<pc, pc'>> \in TickOrder
       /\ (InTick /\ <<rollAttitudeOutput, pitchAttitudeOutput,
                       yawAttitudeOutput>>'
                     # <<rollAttitudeOutput, pitchAttitudeOutput,
                         yawAttitudeOutput>>)
              => Step("attitude", "rate")
       /\ (Step("attitude", "rate") /\ gyroLimit >= 0)
              => /\ rollAttitudeOutput'
                      = Clamp(0 - frame.m.roll, -gyroLimit, gyroLimit)
                 /\ pitchAttitudeOutput'
                      = Clamp(0 - frame.m.pitch, -gyroLimit, gyroLimit)
       /\ Step("rate", "mix")
              => /\ pidSp'["rollRate"] = rollAttitudeOutput
                 /\ pidSp'["pitchRate"] = pitchAttitudeOutput
                 /\ pidSp'["yawRate"] = yawAttitudeOutput
                 /\ rollRateOutput' = rollAttitudeOutput - frame.m.rollGyro
                 /\ pitchRateOutput' = pitchAttitudeOutput - frame.m.pitchGyro
                 /\ yawRateOutput' = yawAttitudeOutput - frame.m.yawGyro
       /\ Step("mix", "ccw1")
              => \A m \in Motors :
                    /\ Abs(rollC'[m]) = Abs(rollRateOutput)
                    /\ Abs(pitchC'[m]) = Abs(pitchRateOutput)
                    /\ Abs(yawC'[m]) = Abs(yawRateOutput)
       /\ motorPower' # motorPower
              => \E w \in WriteSteps : Step(w[1], w[2])]_vars

\* the spec's scenario: the roll attitude result 120 stored as 50, given to
\* the roll rate controller, whose result 80 reaches the mixer unclamped
C10_Witness ==
    /\ pc = "ccw1"
    /\ rollAttitudeOutput = 50
    /\ pidSp["rollRate"] = 50
    /\ rollRateOutput = 80
    /\ rollC["CCW1"] = 80

=============================================================================
